---- MODULE Spec2Model ----
(***************************************************************************)
(* A model of the user-account service of src/app.py: the "users" table,   *)
(* the bcrypt credential hasher, the HS256 bearer token and the six HTTP   *)
(* handlers (login, create_user, daftar_user, get_users, delete_user,      *)
(* update_user).                                                           *)
(*                                                                         *)
(* Three specifications share the module:                                  *)
(*   Spec       one request at a time, every handler run to completion;    *)
(*   SpecConc   handlers of several threads interleaved at the statements  *)
(*              that reach the database (query, commit, refresh);          *)
(*   SpecToken  create_access_token / verify_token against a clock.        *)
(*                                                                         *)
(* The table is taken to exist with the schema the User class declares.    *)
(***************************************************************************)
EXTENDS Integers, Sequences, FiniteSets, TLC

VARIABLES
    users,      \* rows of table "users" (committed state of test.db)
    sessions,   \* owners of the SessionLocal() sessions that are open
    request,    \* Spec: the request served by the last step
    response,   \* Spec: the response (or unhandled exception) of that request
    pc,         \* SpecConc: per thread, the statement it is about to run
    req,        \* SpecConc: per thread, the request it serves
    loaded,     \* SpecConc: per thread, the ORM object its session holds
    result,     \* SpecConc: per thread, the response of its request
    clock,      \* datetime.utcnow(), in ticks
    token,      \* SpecToken: <<>> or <<t>>, the bearer token at hand
    issued,     \* SpecToken: <<>> or <<[data, at]>>, the call that made it
    decoded     \* SpecToken: <<>> or <<outcome of verify_token here and now>>

vars == <<users, sessions, request, response, pc, req, loaded, result,
          clock, token, issued, decoded>>

seqVars == <<request, response>>
concVars == <<pc, req, loaded, result>>
tokenVars == <<token, issued, decoded>>

----------------------------------------------------------------------------
(* Bounds of the model *)

\* largest row id the model lets the table assign
MaxId == 2
\* number of request threads in SpecConc
NumWorkers == 2
\* clock ticks per second (utcnow() is finer than the token's whole seconds)
TicksPerSecond == 2
\* seconds sampled on either side of the instants of interest
Window == 2

(* Program constants *)

\* timedelta(minutes=30)
ACCESS_TOKEN_EXPIRE_MINUTES == 30
\* status.HTTP_401_UNAUTHORIZED
HTTP_401_UNAUTHORIZED == 401
\* HTTPException(status_code=404, ...)
HTTP_404_NOT_FOUND == 404
\* jwt.encode(to_encode, "secret-key", algorithm="HS256")
SECRET_KEY == "secret-key"

----------------------------------------------------------------------------
(* Values *)

\* Python's None, and a present Optional value
None == <<>>
Some(v) == <<v>>

Usernames == {"alice", "bob"}
Passwords == {"pw123", "wrong"}
Salts == {"salt1", "salt2"}
\* path parameter user_id, stored or not
UserIds == 1..(MaxId + 1)

Max(S) == CHOOSE m \in S : \A x \in S : x <= m

----------------------------------------------------------------------------
(* Credential hasher: CryptContext(schemes=["bcrypt"]) *)

\* bcrypt of a password under a given salt
Bcrypt(password, salt) == [salt |-> salt, digest |-> <<salt, password>>]

\* pwd_context.hash draws a fresh salt: the set of its possible outputs
get_password_hash(password) == {Bcrypt(password, s) : s \in Salts}

\* pwd_context.verify recomputes under the stored salt and compares
verify_password(plain_password, hashed_password) ==
    Bcrypt(plain_password, hashed_password.salt) = hashed_password

----------------------------------------------------------------------------
(* The users table *)

User(id, username, hashed_password, nama, jenis_kelamin, tanggal_lahir) ==
    [id |-> id, username |-> username, hashed_password |-> hashed_password,
     nama |-> nama, jenis_kelamin |-> jenis_kelamin,
     tanggal_lahir |-> tanggal_lahir]

\* a faulty variant: the username column without unique=True
UniqueViolationOff(table, username) == FALSE

\* Column(String, unique=True): an INSERT of a stored username is refused
UniqueViolation(table, username) == \E u \in table : u.username = username

\* Column(Integer, primary_key=True): SQLite gives the largest rowid plus one
NextId(table) == IF table = {} THEN 1 ELSE Max({u.id : u \in table}) + 1

\* db.query(User).filter(User.username == username).first()
get_user(table, username) == {u \in table : u.username = username}

\* a faulty variant: the query without its filter
QueryByIdNoFilter(table, user_id) == table

\* db.query(User).filter(User.id == user_id).first()
QueryById(table, user_id) == {u \in table : u.id = user_id}

----------------------------------------------------------------------------
(* Token issuer / verifier: python-jose, HS256 *)

\* timedelta(minutes=30), in ticks
ExpireTicks == ACCESS_TOKEN_EXPIRE_MINUTES * 60 * TicksPerSecond

\* timegm(d.utctimetuple()): the whole seconds of an instant
Timegm(t) == t \div TicksPerSecond

\* jwt.encode: a datetime "exp" becomes its whole seconds; signed with key
JwtEncode(claims, key) ==
    [claims |-> [c \in DOMAIN claims |->
                    IF c = "exp" THEN Timegm(claims[c]) ELSE claims[c]],
     key |-> key]

\* a faulty variant: timedelta(seconds=30) for timedelta(minutes=30)
create_access_token_seconds(data, now) ==
    LET expire == now + ACCESS_TOKEN_EXPIRE_MINUTES * TicksPerSecond
        to_encode == [exp |-> expire] @@ data
    IN  JwtEncode(to_encode, SECRET_KEY)

\* data.copy(); update({"exp": utcnow() + 30 minutes}); jwt.encode
create_access_token(data, now) ==
    LET expire == now + ExpireTicks
        to_encode == [exp |-> expire] @@ data
    IN  JwtEncode(to_encode, SECRET_KEY)

Raised(error) == [ok |-> FALSE, error |-> error, username |-> ""]
Returned(username) == [ok |-> TRUE, error |-> "", username |-> username]

\* jwt.decode: signature, then exp against the whole seconds of now, then sub
JwtDecode(tok, key, now) ==
    IF tok.key # key THEN Raised("JWTError")
    ELSE IF tok.claims.exp < Timegm(now) THEN Raised("ExpiredSignatureError")
    ELSE IF "sub" \in DOMAIN tok.claims /\ tok.claims.sub = None
         THEN Raised("JWTClaimsError")
    ELSE [ok |-> TRUE, error |-> "", claims |-> tok.claims]

verify_token(tok, credentials_exception, now) ==
    LET credentials == JwtDecode(tok, SECRET_KEY, now)
    IN  IF ~credentials.ok THEN Raised(credentials.error)
        ELSE IF "sub" \notin DOMAIN credentials.claims THEN Raised("KeyError")
        ELSE LET username == credentials.claims.sub
             IN  IF username = None THEN Raised(credentials_exception)
                 ELSE Returned(username[1])

----------------------------------------------------------------------------
(* Sessions *)

\* SessionLocal()
SessionOpen(open, owner) == open \cup {owner}
\* db.close()
SessionClose(open, owner) == open \ {owner}
\* get_db: yield db, and db.close() in the finally clause
get_db(open, owner) == SessionClose(SessionOpen(open, owner), owner)

----------------------------------------------------------------------------
(* Requests and responses *)

Request(op, user_id, username, password, nama, jenis_kelamin, tanggal_lahir) ==
    [op |-> op, user_id |-> user_id, username |-> username,
     password |-> password, nama |-> nama, jenis_kelamin |-> jenis_kelamin,
     tanggal_lahir |-> tanggal_lahir]

NoRequest == Request("none", 0, "", "", "", None, None)

\* UserLogin
UserLogin == [username : Usernames, password : Passwords]

\* the nama / jenis_kelamin / tanggal_lahir parts of the request bodies tried
Profiles ==
    {[nama |-> "Alice", jenis_kelamin |-> Some(1), tanggal_lahir |-> Some("2000-01-01")],
     [nama |-> "Bob", jenis_kelamin |-> Some(2), tanggal_lahir |-> None],
     [nama |-> "Bob", jenis_kelamin |-> None, tanggal_lahir |-> None]}

\* InputUser: jenis_kelamin and tanggal_lahir are None when the body omits them
InputUser ==
    {[username |-> u, nama |-> p.nama, jenis_kelamin |-> p.jenis_kelamin,
      tanggal_lahir |-> p.tanggal_lahir, password |-> pw] :
        u \in Usernames, p \in Profiles, pw \in Passwords}

Response(status, detail, body, access_token, token_type) ==
    [status |-> status, detail |-> detail, body |-> body,
     access_token |-> access_token, token_type |-> token_type]

NoResponse == Response(0, "", {}, None, "")

\* HTTPException(401, "Invalid username or password")
Unauthorized ==
    Response(HTTP_401_UNAUTHORIZED, "Invalid username or password", {}, None, "")
\* HTTPException(404, "User tidak ditemukan.")
NotFound == Response(HTTP_404_NOT_FOUND, "User tidak ditemukan.", {}, None, "")
\* an exception the handler does not catch
Unhandled(exception) == Response(500, exception, {}, None, "")
\* return of rows, of a message, of a token
Rows(rows) == Response(200, "", rows, None, "")
Message(text) == Response(200, text, {}, None, "")
Bearer(t) == Response(200, "", {}, Some(t), "bearer")

----------------------------------------------------------------------------
(* The handlers, each run to completion (Spec) *)

\* the thread that serves the request of Spec
Main == 0

\* the row .first() returns
First(rows) == CHOOSE u \in rows : TRUE

\* a faulty variant: login without the password check
LoginResponseNoVerify(table, user, now) ==
    LET db_user == get_user(table, user.username)
    IN  IF db_user = {}
        THEN Unauthorized
        ELSE Bearer(create_access_token([sub |-> Some(user.username)], now))

\* POST /login: what the handler answers on a table
LoginResponse(table, user, now) ==
    LET db_user == get_user(table, user.username)
    IN  IF db_user = {}
           \/ ~verify_password(user.password, First(db_user).hashed_password)
        THEN Unauthorized
        ELSE Bearer(create_access_token([sub |-> Some(user.username)], now))

\* (the clock stands still under Spec: only the token's exp reads it, and
\* the token against the clock is the subject of SpecToken)
login(user) ==
    /\ request' = Request("login", 0, user.username, user.password, "", None, None)
    /\ response' = LoginResponse(users, user, clock)
    /\ sessions' = get_db(sessions, Main)
    /\ UNCHANGED <<users, clock, concVars, tokenVars>>

\* the User object create_user builds and adds
NewUser(table, input_user, hashed_password) ==
    User(NextId(table), input_user.username, hashed_password, input_user.nama,
         input_user.jenis_kelamin, input_user.tanggal_lahir)

\* POST /users
create_user(input_user) ==
    \E hashed_password \in get_password_hash(input_user.password) :
        LET db_user == NewUser(users, input_user, hashed_password)
        IN  /\ UniqueViolation(users, input_user.username) \/ db_user.id <= MaxId
            /\ request' = Request("create_user", 0, input_user.username,
                                  input_user.password, input_user.nama,
                                  input_user.jenis_kelamin, input_user.tanggal_lahir)
            /\ IF UniqueViolation(users, input_user.username)
               THEN \* db.commit() raises IntegrityError
                    /\ users' = users
                    /\ response' = Unhandled("IntegrityError")
               ELSE /\ users' = users \cup {db_user}
                    /\ response' = Rows({db_user})
            /\ sessions' = get_db(sessions, Main)
            /\ UNCHANGED <<clock, concVars, tokenVars>>

\* GET /users/daftar
daftar_user ==
    /\ request' = Request("daftar_user", 0, "", "", "", None, None)
    /\ response' = Rows(users)
    /\ sessions' = SessionClose(SessionOpen(sessions, Main), Main)
    /\ UNCHANGED <<users, clock, concVars, tokenVars>>

\* GET /users/{user_id}
get_users(user_id) ==
    LET user == QueryById(users, user_id)
    IN  /\ request' = Request("get_users", user_id, "", "", "", None, None)
        /\ response' = IF user = {} THEN NotFound ELSE Rows(user)
        /\ sessions' = SessionClose(SessionOpen(sessions, Main), Main)
        /\ UNCHANGED <<users, clock, concVars, tokenVars>>

\* a faulty variant: a DELETE without its WHERE clause
DeletedAll(table, user_id) == {}

\* db.delete(user); db.commit()
Deleted(table, user_id) == {u \in table : u.id # user_id}

\* DELETE /users/{user_id}
delete_user(user_id) ==
    LET user == QueryById(users, user_id)
    IN  /\ request' = Request("delete_user", user_id, "", "", "", None, None)
        /\ IF user = {}
           THEN /\ users' = users
                /\ response' = NotFound
           ELSE /\ users' = Deleted(users, user_id)
                /\ response' = Message("User dengan ID {user_id} berhasil dihapus.")
        /\ sessions' = SessionClose(SessionOpen(sessions, Main), Main)
        /\ UNCHANGED <<clock, concVars, tokenVars>>

\* a faulty variant: update_user also assigns the username of the body
AssignedWithUsername(existing_user, input_user) ==
    [existing_user EXCEPT !.username = input_user.username,
                          !.nama = input_user.nama,
                          !.jenis_kelamin = input_user.jenis_kelamin,
                          !.tanggal_lahir = input_user.tanggal_lahir]

\* the three assignments of update_user
Assigned(existing_user, input_user) ==
    [existing_user EXCEPT !.nama = input_user.nama,
                          !.jenis_kelamin = input_user.jenis_kelamin,
                          !.tanggal_lahir = input_user.tanggal_lahir]

\* PUT /users/{user_id}
update_user(user_id, input_user) ==
    LET existing_user == QueryById(users, user_id)
    IN  /\ request' = Request("update_user", user_id, input_user.username,
                              input_user.password, input_user.nama,
                              input_user.jenis_kelamin, input_user.tanggal_lahir)
        /\ IF existing_user = {}
           THEN /\ users' = users
                /\ response' = NotFound
           ELSE /\ users' = Deleted(users, user_id)
                               \cup {Assigned(First(existing_user), input_user)}
                /\ response' = Message("User dengan ID {user_id} berhasil diupdate.")
        /\ sessions' = SessionClose(SessionOpen(sessions, Main), Main)
        /\ UNCHANGED <<clock, concVars, tokenVars>>

Idle == [w \in 1..NumWorkers |-> "idle"]
NoRequests == [w \in 1..NumWorkers |-> NoRequest]
NoneLoaded == [w \in 1..NumWorkers |-> {}]
NoResults == [w \in 1..NumWorkers |-> NoResponse]

Init ==
    /\ users = {}
    /\ sessions = {}
    /\ request = NoRequest
    /\ response = NoResponse
    /\ pc = Idle
    /\ req = NoRequests
    /\ loaded = NoneLoaded
    /\ result = NoResults
    /\ clock = 0
    /\ token = <<>>
    /\ issued = <<>>
    /\ decoded = <<>>

Next ==
    \/ \E user \in UserLogin : login(user)
    \/ \E input_user \in InputUser : create_user(input_user)
    \/ daftar_user
    \/ \E user_id \in UserIds : get_users(user_id)
    \/ \E user_id \in UserIds : delete_user(user_id)
    \/ \E user_id \in UserIds, input_user \in InputUser : update_user(user_id, input_user)

Spec == Init /\ [][Next]_vars

----------------------------------------------------------------------------
(* create_access_token and verify_token against the clock (SpecToken) *)

\* the instants the clock is sampled at: the first seconds, and the seconds
\* around the expiry of a token issued in the first seconds
Instants ==
    {t \in 0..(ExpireTicks + (Window + 1) * TicksPerSecond) :
        t < Window * TicksPerSecond \/ t >= ExpireTicks - TicksPerSecond}

\* a dict without keys
EmptyDict == <<>>

\* the data dicts create_access_token is called with
TokenData ==
    {[sub |-> Some(u)] : u \in Usernames} \cup {[sub |-> None], EmptyDict}

\* create_access_token(data) at the current instant
Issue(data) ==
    /\ token' = <<create_access_token(data, clock)>>
    /\ issued' = <<[data |-> data, at |-> clock]>>
    /\ decoded' = <<>>
    /\ UNCHANGED <<users, sessions, clock, seqVars, concVars>>

\* the token at hand re-signed with a key that is not the service's
Forge ==
    /\ token # <<>>
    /\ token[1].key = SECRET_KEY
    /\ token' = <<[token[1] EXCEPT !.key = "other-key"]>>
    /\ decoded' = <<>>
    /\ UNCHANGED <<users, sessions, clock, issued, seqVars, concVars>>

\* verify_token(db, token, credentials_exception) at the current instant
Decode ==
    /\ token # <<>>
    /\ decoded' = <<verify_token(token[1], "credentials_exception", clock)>>
    /\ UNCHANGED <<users, sessions, clock, token, issued, seqVars, concVars>>

\* time passes
Advance ==
    /\ \E t \in Instants : t > clock /\ clock' = t
    /\ decoded' = <<>>
    /\ UNCHANGED <<users, sessions, token, issued, seqVars, concVars>>

NextToken ==
    \/ \E data \in TokenData : Issue(data)
    \/ Forge
    \/ Decode
    \/ Advance

SpecToken == Init /\ [][NextToken]_vars

----------------------------------------------------------------------------
(* The handlers that write, one statement at a time (SpecConc).  Each thread *)
(* serves one request.  SQLite serialises writers, so the INSERT, UPDATE or  *)
(* DELETE that db.commit() flushes and its COMMIT are one step; the SELECT   *)
(* before it and the refresh after it are steps of their own.                *)

Workers == 1..NumWorkers

\* the rows test.db may hold when the threads start
InitialUsers ==
    {User(1, "alice", Bcrypt("pw123", "salt1"), "Alice", Some(1), Some("2000-01-01"))}

\* the request bodies the threads send
ConcInput == {b \in InputUser : b.password = "pw123"}

InitConc ==
    /\ users \in {{}, InitialUsers}
    /\ sessions = {}
    /\ request = NoRequest
    /\ response = NoResponse
    /\ pc = Idle
    /\ req = NoRequests
    /\ loaded = NoneLoaded
    /\ result = NoResults
    /\ clock = 0
    /\ token = <<>>
    /\ issued = <<>>
    /\ decoded = <<>>

\* the thread leaves the handler with this response
Finish(w, r) ==
    /\ pc' = [pc EXCEPT ![w] = "done"]
    /\ result' = [result EXCEPT ![w] = r]
    /\ loaded' = [loaded EXCEPT ![w] = {}]

\* create_user up to db.add(db_user): the session is the one get_db yields
create_user_add(w, input_user) ==
    /\ pc[w] = "idle"
    /\ \E hashed_password \in get_password_hash(input_user.password) :
          loaded' = [loaded EXCEPT ![w] =
                        {User(0, input_user.username, hashed_password,
                              input_user.nama, input_user.jenis_kelamin,
                              input_user.tanggal_lahir)}]
    /\ req' = [req EXCEPT ![w] =
                  Request("create_user", 0, input_user.username,
                          input_user.password, input_user.nama,
                          input_user.jenis_kelamin, input_user.tanggal_lahir)]
    /\ sessions' = SessionOpen(sessions, w)
    /\ pc' = [pc EXCEPT ![w] = "create_commit"]
    /\ UNCHANGED <<users, result, clock, seqVars, tokenVars>>

\* db.commit() of create_user: INSERT and COMMIT, or IntegrityError
create_user_commit(w) ==
    /\ pc[w] = "create_commit"
    /\ LET pending == First(loaded[w])
           db_user == NewUser(users, req[w], pending.hashed_password)
       IN  /\ UniqueViolation(users, pending.username) \/ db_user.id <= MaxId
           /\ IF UniqueViolation(users, pending.username)
              THEN \* the exception leaves through get_db's finally
                   /\ users' = users
                   /\ sessions' = SessionClose(sessions, w)
                   /\ Finish(w, Unhandled("IntegrityError"))
              ELSE /\ users' = users \cup {db_user}
                   /\ loaded' = [loaded EXCEPT ![w] = {db_user}]
                   /\ pc' = [pc EXCEPT ![w] = "create_refresh"]
                   /\ UNCHANGED <<sessions, result>>
    /\ UNCHANGED <<req, clock, seqVars, tokenVars>>

\* db.refresh(db_user); db.close(); return db_user
create_user_refresh(w) ==
    /\ pc[w] = "create_refresh"
    /\ LET row == QueryById(users, First(loaded[w]).id)
       IN  IF row = {}
           THEN Finish(w, Unhandled("InvalidRequestError"))
           ELSE Finish(w, Rows(row))
    /\ sessions' = SessionClose(sessions, w)
    /\ UNCHANGED <<users, req, clock, seqVars, tokenVars>>

\* delete_user up to the 404 or db.delete(user)
delete_user_query(w, user_id) ==
    /\ pc[w] = "idle"
    /\ req' = [req EXCEPT ![w] = Request("delete_user", user_id, "", "", "", None, None)]
    /\ LET user == QueryById(users, user_id)
       IN  IF user = {}
           THEN /\ sessions' = SessionClose(SessionOpen(sessions, w), w)
                /\ Finish(w, NotFound)
           ELSE /\ sessions' = SessionOpen(sessions, w)
                /\ loaded' = [loaded EXCEPT ![w] = user]
                /\ pc' = [pc EXCEPT ![w] = "delete_commit"]
                /\ UNCHANGED result
    /\ UNCHANGED <<users, clock, seqVars, tokenVars>>

\* db.commit() of delete_user (a DELETE that matches no row only warns);
\* db.close(); return
delete_user_commit(w) ==
    /\ pc[w] = "delete_commit"
    /\ users' = Deleted(users, First(loaded[w]).id)
    /\ sessions' = SessionClose(sessions, w)
    /\ Finish(w, Message("User dengan ID {user_id} berhasil dihapus."))
    /\ UNCHANGED <<req, clock, seqVars, tokenVars>>

\* update_user up to the 404 or the three assignments
update_user_query(w, user_id, input_user) ==
    /\ pc[w] = "idle"
    /\ req' = [req EXCEPT ![w] =
                  Request("update_user", user_id, input_user.username,
                          input_user.password, input_user.nama,
                          input_user.jenis_kelamin, input_user.tanggal_lahir)]
    /\ LET existing_user == QueryById(users, user_id)
       IN  IF existing_user = {}
           THEN /\ sessions' = SessionClose(SessionOpen(sessions, w), w)
                /\ Finish(w, NotFound)
           ELSE /\ sessions' = SessionOpen(sessions, w)
                /\ loaded' = [loaded EXCEPT ![w] = existing_user]
                /\ pc' = [pc EXCEPT ![w] = "update_commit"]
                /\ UNCHANGED result
    /\ UNCHANGED <<users, clock, seqVars, tokenVars>>

\* the row after UPDATE ... SET <the columns whose value changed>
Updated(row, existing_user, assigned) ==
    [c \in DOMAIN row |->
        IF assigned[c] # existing_user[c] THEN assigned[c] ELSE row[c]]

\* db.commit() of update_user: no statement when nothing changed, else an
\* UPDATE by primary key, which raises StaleDataError when it matches no row
\* (no db.close() on that path); db.close(); return
update_user_commit(w) ==
    /\ pc[w] = "update_commit"
    /\ LET existing_user == First(loaded[w])
           assigned == Assigned(existing_user, req[w])
           row == QueryById(users, existing_user.id)
       IN  IF assigned = existing_user
           THEN /\ users' = users
                /\ sessions' = SessionClose(sessions, w)
                /\ Finish(w, Message("User dengan ID {user_id} berhasil diupdate."))
           ELSE IF row = {}
           THEN /\ users' = users
                /\ sessions' = sessions
                /\ Finish(w, Unhandled("StaleDataError"))
           ELSE /\ users' = Deleted(users, existing_user.id)
                               \cup {Updated(First(row), existing_user, assigned)}
                /\ sessions' = SessionClose(sessions, w)
                /\ Finish(w, Message("User dengan ID {user_id} berhasil diupdate."))
    /\ UNCHANGED <<req, clock, seqVars, tokenVars>>

NextConc ==
    \E w \in Workers :
        \/ \E input_user \in ConcInput : create_user_add(w, input_user)
        \/ create_user_commit(w)
        \/ create_user_refresh(w)
        \/ \E user_id \in UserIds : delete_user_query(w, user_id)
        \/ delete_user_commit(w)
        \/ \E user_id \in UserIds, input_user \in ConcInput :
              update_user_query(w, user_id, input_user)
        \/ update_user_commit(w)

SpecConc == InitConc /\ [][NextConc]_vars

----------------------------------------------------------------------------
(* Properties of the handlers, checked under Spec *)

UniqueUsernames(table) ==
    \A u1, u2 \in table : u1.username = u2.username => u1 = u2

\* C1: no two stored records ever share a username, and a createUser whose
\* username is already stored fails and leaves the whole store as it was.
C1_UniqueUsername ==
    [][/\ UniqueUsernames(users)
       /\ UniqueUsernames(users')
       /\ (/\ request'.op = "create_user"
           /\ \E u \in users : u.username = request'.username)
          => /\ response'.status # 200
             /\ response'.body = {}
             /\ users' = users]_vars

\* a duplicate createUser has just failed against a store of two users
C1_Witness ==
    /\ request.op = "create_user"
    /\ response.status = 500
    /\ Cardinality(users) = 2

\* C2: login answers {access_token, token_type: "bearer"} exactly when a user
\* of that username is stored and the password verifies against its
\* hashed_password; otherwise (no such user, or a mismatch) it answers the
\* one 401 "Invalid username or password" and issues no token.
C2_LoginIff ==
    [][request'.op = "login" =>
        IF \E u \in users :
              /\ u.username = request'.username
              /\ verify_password(request'.password, u.hashed_password)
        THEN /\ response'.status = 200
             /\ response'.token_type = "bearer"
             /\ response'.access_token # None
             /\ response'.access_token[1].claims.sub = Some(request'.username)
        ELSE /\ response'.status = 401
             /\ response'.detail = "Invalid username or password"
             /\ response'.access_token = None]_vars

\* a login of a stored user with the wrong password was refused
C2_Witness ==
    /\ request.op = "login"
    /\ response.status = 401
    /\ \E u \in users : u.username = request.username

\* C3: getUser, deleteUser and updateUser of an id that is not stored answer
\* 404 and leave the stored records as they were.
C3_NotFound ==
    [][(/\ request'.op \in {"get_users", "delete_user", "update_user"}
        /\ \A u \in users : u.id # request'.user_id)
       => /\ response'.status = 404
          /\ users' = users]_vars

\* an update of an id that is not stored, against a store that is not empty
C3_Witness ==
    /\ request.op = "update_user"
    /\ response.status = 404
    /\ users # {}
    /\ \A u \in users : u.id # request.user_id

\* C6: a successful updateUser leaves the id, username and hashed_password of
\* the record it names, and every other record, as they were.
C6_UpdateFrame ==
    [][(request'.op = "update_user" /\ response'.status = 200) =>
        \E old \in users, new \in users' :
            /\ old.id = request'.user_id
            /\ new.id = old.id
            /\ new.username = old.username
            /\ new.hashed_password = old.hashed_password
            /\ users' \ {new} = users \ {old}]_vars

\* an update went through whose body named another username and password
C6_Witness ==
    /\ request.op = "update_user"
    /\ response.status = 200
    /\ Cardinality(users) = 2
    /\ \E u \in users :
          /\ u.id = request.user_id
          /\ u.username # request.username
          /\ ~verify_password(request.password, u.hashed_password)
          /\ u.nama = request.nama

\* what a login with these credentials would answer on a table
CanLogin(table, user) ==
    \E u \in table :
        /\ u.username = user.username
        /\ verify_password(user.password, u.hashed_password)

\* C9: a created user is returned by getUser and listUsers and can log in
\* with the creation password, in the state after createUser and in every
\* later state until a deleteUser of its id succeeds; after that deleteUser,
\* getUser finds nothing, the list lacks the record, no login with that
\* username succeeds, and the other records are as they were.
C9_Lifecycle ==
    [][/\ (request'.op = "create_user" /\ response'.status = 200) =>
            \E r \in response'.body :
                /\ r.username = request'.username
                /\ r \notin users
                /\ users' = users \cup {r}
                /\ {u \in users' : u.id = r.id} = {r}
                /\ CanLogin(users', [username |-> request'.username,
                                     password |-> request'.password])
       /\ \A r \in users :
            ~(/\ request'.op = "delete_user"
              /\ response'.status = 200
              /\ request'.user_id = r.id)
            => /\ \E r2 \in users' : /\ r2.id = r.id
                                     /\ r2.username = r.username
                                     /\ r2.hashed_password = r.hashed_password
               /\ \A pw \in Passwords :
                    CanLogin(users, [username |-> r.username, password |-> pw])
                    => CanLogin(users', [username |-> r.username, password |-> pw])
       /\ (request'.op = "delete_user" /\ response'.status = 200) =>
            \E r \in users :
                /\ r.id = request'.user_id
                /\ users' = users \ {r}
                /\ \A u \in users' : u.id # r.id
                /\ \A pw \in Passwords :
                    ~CanLogin(users', [username |-> r.username, password |-> pw])
      ]_vars

\* one of two users has just been deleted, the other is still stored
C9_Witness ==
    /\ request.op = "delete_user"
    /\ response.status = 200
    /\ Cardinality(users) = 1
    /\ \A u \in users : u.id # request.user_id

\* C10: a successful updateUser whose body omits jenis_kelamin or
\* tanggal_lahir leaves the stored value of the omitted field as it was.
C10_OmittedKept ==
    [][(request'.op = "update_user" /\ response'.status = 200) =>
        \A old \in users, new \in users' :
            (old.id = request'.user_id /\ new.id = old.id) =>
                /\ request'.jenis_kelamin = None
                   => new.jenis_kelamin = old.jenis_kelamin
                /\ request'.tanggal_lahir = None
                   => new.tanggal_lahir = old.tanggal_lahir]_vars

----------------------------------------------------------------------------
(* Properties of the interleaved handlers, checked under SpecConc *)

\* C4: once an operation has returned or raised, the session it opened is
\* closed, whatever the exit path.
C4_SessionReleased ==
    \A w \in Workers : pc[w] = "done" => w \notin sessions

\* the threads that serve a createUser of username u
Creators(u) ==
    {w \in Workers : req[w].op = "create_user" /\ req[w].username = u}

\* the thread's INSERT was committed
Committed(w) ==
    \/ pc[w] = "create_refresh"
    \/ pc[w] = "done" /\ result[w].status = 200

\* the row the thread's INSERT stored
Stored(w) == IF pc[w] = "create_refresh" THEN loaded[w] ELSE result[w].body

\* C5: of the concurrent createUser calls of one username that was not
\* stored, under any interleaving (and no other request), never two commit;
\* when they have all returned exactly one has succeeded, its record is the
\* one stored under that username, and every other call has failed.
C5_OneCreateWins ==
    \A u \in Usernames \ {r.username : r \in InitialUsers} :
        (\A w \in Workers : req[w].op \in {"none", "create_user"}) =>
            LET winners == {w \in Creators(u) : Committed(w)}
            IN  /\ Cardinality(winners) <= 1
                /\ \A w \in winners : {r \in users : r.username = u} = Stored(w)
                /\ winners = {} => {r \in users : r.username = u} = {}
                /\ (Creators(u) # {} /\ \A w \in Creators(u) : pc[w] = "done") =>
                      /\ Cardinality(winners) = 1
                      /\ \A w \in Creators(u) \ winners :
                            result[w].status = 500 /\ result[w].body = {}

\* two createUser calls of the same new username have both returned
C5_Witness ==
    \E w1, w2 \in Workers :
        /\ w1 # w2
        /\ {w1, w2} \subseteq Creators("bob")
        /\ pc[w1] = "done" /\ pc[w2] = "done"
        /\ result[w1].status = 200
        /\ result[w2].status = 500
        /\ \A w \in Workers : req[w].op \in {"none", "create_user"}

----------------------------------------------------------------------------
(* Properties of the token, checked under SpecToken *)

\* the errors jwt.decode raises
InvalidToken == {"JWTError", "ExpiredSignatureError", "JWTClaimsError"}

\* the token at hand is the one issue(u) made, signature intact
IssuedFor(u) ==
    /\ token # <<>>
    /\ token[1].key = SECRET_KEY
    /\ "sub" \in DOMAIN issued[1].data
    /\ issued[1].data.sub = Some(u)

\* C7: verify_token of a validly signed, unexpired token without a subject
\* claim fails with the credentials exception the caller passed.
C7_MissingSubject ==
    (/\ decoded # <<>>
     /\ token[1].key = SECRET_KEY
     /\ token[1].claims.exp >= Timegm(clock)
     /\ "sub" \notin DOMAIN token[1].claims)
    => decoded[1] = Raised("credentials_exception")

\* C8 as stated: the token of issue(u) at t carries t + 30 minutes (to the
\* second, as a token does), decodes to u at every instant before that
\* expiration and fails with InvalidToken at every instant after it.
C8_AsStated ==
    \A u \in Usernames : IssuedFor(u) =>
        LET expiration == token[1].claims.exp * TicksPerSecond
        IN  /\ token[1].claims.exp = (issued[1].at + ExpireTicks) \div TicksPerSecond
            /\ (decoded # <<>> /\ clock < expiration) => decoded[1] = Returned(u)
            /\ (decoded # <<>> /\ clock > expiration)
               => (~decoded[1].ok /\ decoded[1].error \in InvalidToken)

\* C8 (amended): the token of issue(u) at t carries the whole seconds of t
\* plus 30 minutes; it decodes to u while the whole seconds of the clock are
\* at most that, and fails with InvalidToken once they exceed it.
C8_WholeSeconds ==
    \A u \in Usernames : IssuedFor(u) =>
        LET exp == (issued[1].at \div TicksPerSecond) + ACCESS_TOKEN_EXPIRE_MINUTES * 60
            seconds == clock \div TicksPerSecond
        IN  /\ token[1].claims.exp = exp
            /\ (decoded # <<>> /\ seconds <= exp) => decoded[1] = Returned(u)
            /\ (decoded # <<>> /\ seconds > exp)
               => (~decoded[1].ok /\ decoded[1].error \in InvalidToken
                   /\ decoded[1].username = "")

\* a token issued in mid-second was decoded after its expiry and refused
C8_Witness ==
    /\ IssuedFor("bob")
    /\ issued[1].at % TicksPerSecond # 0
    /\ decoded # <<>>
    /\ ~decoded[1].ok
    /\ clock > issued[1].at + ExpireTicks

====
